---- MODULE Spec2Model ----
(***************************************************************************)
(* Segment-chain authentication of the c2pa-service                        *)
(* (src/byoc-stream/worker/deep-live-cam/c2pa-service).                    *)
(*                                                                         *)
(* SegmentChainManifest (segment_manifest.py) and SegmentAuthenticator     *)
(* (segment_processor.py) are modelled as operators over records, and the  *)
(* operations of the service as actions.                                   *)
(*                                                                         *)
(* Conventions.                                                            *)
(*  - Python's None is the empty tuple <<>>, a present value v is <<v>>.    *)
(*  - A Python dict (a score entry) is a record; a missing key is a field  *)
(*    that is not in the record's DOMAIN.                                  *)
(*  - Python lists are 1-based sequences here: list index i is i+1.        *)
(*  - Scores, confidences and thresholds are in tenths: 0.5 is 5, so the   *)
(*    interval [0,1] is 0..10 and comparisons are exact.                   *)
(*  - File contents are natural numbers.  SHA-256 is idealised as          *)
(*    collision free: distinct inputs have distinct digests.               *)
(***************************************************************************)
EXTENDS Integers, Sequences, FiniteSets, TLC

VARIABLES manifest, pre, op, arg, ret, output_dir, origin, temp_dir, manifest_files, calls, runs, saving, tasks

\* manifest   the manifest object at hand
\* pre        the manifest the last operation was applied to, as it was before
\* op         the last operation: its name and how it ended
\* arg        the arguments of the last operation
\* ret        what the last operation returned
\* output_dir the signed segment files on disk, signed_segment_0000.mp4 first
\* origin     where the manifest at hand came from, and the signed files
\*            that were returned with it
\* temp_dir   the working files in temp_dir: the segments_<video_id>
\*            directories with their segment files, and the
\*            manifest_seg_<k>.json files, each with the video whose run
\*            wrote its text
\* manifest_files  the manifest files in the output directory, by name: the
\*            text of each, or None for a file that does not exist
\* calls      the external tools invoked by the last signing run, in order
\* runs       the number of signing runs so far
\* saving     the save_manifest call in progress, if any: its path and text
\* tasks      the signing runs in progress side by side, one per video:
\*            where each is in sign_segment
vars == <<manifest, pre, op, arg, ret, output_dir, origin, temp_dir, manifest_files, calls, runs, saving, tasks>>

\* the state of the signing runs, of a save in progress and of the runs in
\* progress side by side, which no other operation touches
signing == <<temp_dir, manifest_files, calls, runs, saving, tasks>>

(***************************************************************************)
(* Bounds of the model.                                                    *)
(***************************************************************************)
\* segments of an uploaded manifest
MaxChain == 4

\* segment files the segmenter produces in one run
MaxSegs == 2

\* entries of one list of scores
MaxEntries == 1

\* signing runs of one service process
MaxRuns == 2

(***************************************************************************)
(* Python values.                                                          *)
(***************************************************************************)
None == <<>>

Some(v) == <<v>>

Get(d, k) == IF k \in DOMAIN d THEN Some(d[k]) ELSE None

GetOr(d, k, default) == IF k \in DOMAIN d THEN Some(d[k]) ELSE Some(default)

(***************************************************************************)
(* The directories of the service before any signing run.                  *)
(***************************************************************************)
\* video_id = f"{hash(video.filename)}_{hash(manifest)}": the same upload
\* sent again has the same id
VideoIds == {"v1", "v2"}

\* no segments directory for any video, no per-segment manifest file
EmptyTempDir == [segments_dir |-> [v \in VideoIds |-> None], manifest_seg |-> [segment_id \in 0..(MaxSegs - 1) |-> None]]

\* no signing run in progress
NoTasks == [v \in VideoIds |-> [pc |-> "none"]]

\* OUTPUT_DIR / f"manifest_{video_id}.json"
manifest_output_path(video_id) == "manifest_" \o video_id \o ".json"

\* a score update that writes over the manifest file of the video
updated_manifest_output_path_InPlace(video_id) == "manifest_" \o video_id \o ".json"

\* OUTPUT_DIR / f"manifest_{segment_manifest.video_id}_updated.json"
updated_manifest_output_path(video_id) == "manifest_" \o video_id \o "_updated.json"

ManifestPaths == {manifest_output_path(v) : v \in VideoIds} \cup {updated_manifest_output_path(v) : v \in VideoIds}

NoManifestFiles == [output_path \in ManifestPaths |-> None]

NotSigned == /\ temp_dir = EmptyTempDir
             /\ manifest_files = NoManifestFiles
             /\ calls = <<>>
             /\ runs = 0
             /\ saving = None
             /\ tasks = NoTasks

(***************************************************************************)
(* hashlib.sha256(...).hexdigest()                                         *)
(***************************************************************************)
HexDigits == <<"0", "1", "2", "3", "4", "5", "6", "7", "8", "9", "a", "b", "c", "d", "e", "f">>

\* digest of a file: a fixed-length hex string, one per content
calculate_file_hash(content) == HexDigits[(content \div 16) + 1] \o HexDigits[(content % 16) + 1]

\* digest of a text: determined by the text, different for different texts
Sha256Hex(text) == "sha256(" \o text \o ")"

(***************************************************************************)
(* SegmentChainManifest                                                    *)
(***************************************************************************)
\* a hash input that leaves the segment id out
SegmentHashInput_NoId(segment) == segment.file_hash \o ":" \o (IF segment.previous_hash = None THEN "" ELSE segment.previous_hash[1])

\* f"{segment.segment_id}:{segment.file_hash}:{segment.previous_hash or ''}"
SegmentHashInput(segment) == ToString(segment.segment_id) \o ":" \o segment.file_hash \o ":" \o (IF segment.previous_hash = None THEN "" ELSE segment.previous_hash[1])

RECURSIVE HashInput(_)
HashInput(segments) == IF segments = <<>> THEN "" ELSE HashInput(SubSeq(segments, 1, Len(segments) - 1)) \o SegmentHashInput(segments[Len(segments)])

calculate_master_hash(segments) == Sha256Hex(HashInput(segments))

\* a link loop that accepts any previous_hash on the first segment
RECURSIVE ValidateLinks_FirstUnchecked(_, _)
ValidateLinks_FirstUnchecked(segments, i) == IF i > Len(segments) THEN TRUE ELSE IF i = 1 THEN ValidateLinks_FirstUnchecked(segments, 2) ELSE (IF segments[i].previous_hash # Some(segments[i - 1].file_hash) THEN FALSE ELSE ValidateLinks_FirstUnchecked(segments, i + 1))

\* the loop of validate_chain from list position i on, returning at the first broken link
RECURSIVE ValidateLinks(_, _)
ValidateLinks(segments, i) == IF i > Len(segments) THEN TRUE ELSE IF i = 1 THEN (IF segments[1].previous_hash # None THEN FALSE ELSE ValidateLinks(segments, 2)) ELSE (IF segments[i].previous_hash # Some(segments[i - 1].file_hash) THEN FALSE ELSE ValidateLinks(segments, i + 1))

\* a validation that does not compare the master hash
validate_chain_NoMaster(m) == IF m.segments = <<>> THEN FALSE ELSE ValidateLinks(m.segments, 1)

validate_chain(m) == IF m.segments = <<>> THEN FALSE ELSE IF calculate_master_hash(m.segments) # m.master_hash THEN FALSE ELSE ValidateLinks(m.segments, 1)

(***************************************************************************)
(* Records                                                                 *)
(***************************************************************************)
SegmentInfo(id, path, fh, prev, score, model, confidence, metadata) == [segment_id |-> id, file_path |-> path, file_hash |-> fh, previous_hash |-> prev, deepfake_score |-> score, deepfake_model |-> model, deepfake_confidence |-> confidence, deepfake_metadata |-> metadata]

SegmentChainManifest(video_id, segments, master, valid) == [video_id |-> video_id, total_segments |-> Len(segments), master_hash |-> master, chain_valid |-> valid, segments |-> segments]

(***************************************************************************)
(* pydantic: model_dump_json and model_validate_json.  A JSON text is      *)
(* modelled by the value it denotes, each value tagged with its JSON type. *)
(***************************************************************************)
\* a deepfake_model that is not a Python str: the int 7 of the score entry
\* {"model": 7}; every other string of the model stands for a Python str
NotAStr == "int:7"

JsonNull == <<"null">>

JsonString(s) == <<"string", s>>

JsonNumber(n) == <<"number", n>>

JsonBoolean(b) == <<"boolean", b>>

JsonArray(items) == <<"array", items>>

JsonObject(members) == <<"object", members>>

\* a str field is written as a JSON string; a value of another type is
\* written as it is (pydantic warns and goes on)
DumpStr(s) == IF s = NotAStr THEN JsonNumber(7) ELSE JsonString(s)

DumpOptional(value, Dump(_)) == IF value = None THEN JsonNull ELSE Dump(value[1])

DumpSegmentInfo(segment) == JsonObject([segment_id |-> JsonNumber(segment.segment_id), file_path |-> JsonString(segment.file_path), file_hash |-> DumpStr(segment.file_hash), previous_hash |-> DumpOptional(segment.previous_hash, DumpStr), deepfake_score |-> DumpOptional(segment.deepfake_score, JsonNumber), deepfake_model |-> DumpOptional(segment.deepfake_model, DumpStr), deepfake_confidence |-> DumpOptional(segment.deepfake_confidence, JsonNumber), deepfake_metadata |-> DumpOptional(segment.deepfake_metadata, JsonObject)])

\* manifest.model_dump_json(indent=2)
model_dump_json(m) == JsonObject([video_id |-> DumpStr(m.video_id), total_segments |-> JsonNumber(m.total_segments), master_hash |-> DumpStr(m.master_hash), chain_valid |-> JsonBoolean(m.chain_valid), segments |-> JsonArray([k \in 1..Len(m.segments) |-> DumpSegmentInfo(m.segments[k])])])

\* the validation of a field: a str field takes a JSON string and nothing
\* else, a float or int field a number, an Optional field null as well
IsJson(j, type) == j[1] = type

IsOptional(j, type) == j[1] = "null" \/ j[1] = type

ValidSegmentInfo(j) == /\ IsJson(j, "object")
                       /\ IsJson(j[2].segment_id, "number")
                       /\ IsJson(j[2].file_path, "string")
                       /\ IsJson(j[2].file_hash, "string")
                       /\ IsOptional(j[2].previous_hash, "string")
                       /\ IsOptional(j[2].deepfake_score, "number")
                       /\ IsOptional(j[2].deepfake_model, "string")
                       /\ IsOptional(j[2].deepfake_confidence, "number")
                       /\ IsOptional(j[2].deepfake_metadata, "object")

ValidSegmentChainManifest(j) == /\ IsJson(j, "object")
                                /\ IsJson(j[2].video_id, "string")
                                /\ IsJson(j[2].total_segments, "number")
                                /\ IsJson(j[2].master_hash, "string")
                                /\ IsJson(j[2].chain_valid, "boolean")
                                /\ IsJson(j[2].segments, "array")
                                /\ \A k \in 1..Len(j[2].segments[2]) : ValidSegmentInfo(j[2].segments[2][k])

LoadOptional(j) == IF j[1] = "null" THEN None ELSE Some(j[2])

LoadSegmentInfo(j) == SegmentInfo(j[2].segment_id[2], j[2].file_path[2], j[2].file_hash[2], LoadOptional(j[2].previous_hash), LoadOptional(j[2].deepfake_score), LoadOptional(j[2].deepfake_model), LoadOptional(j[2].deepfake_confidence), LoadOptional(j[2].deepfake_metadata))

\* SegmentChainManifest.model_validate_json(content): the manifest the text
\* denotes, or a ValidationError
model_validate_json(text) == IF ~ValidSegmentChainManifest(text) THEN [raised |-> TRUE] ELSE [raised |-> FALSE, manifest |-> [video_id |-> text[2].video_id[2], total_segments |-> text[2].total_segments[2], master_hash |-> text[2].master_hash[2], chain_valid |-> text[2].chain_valid[2], segments |-> [k \in 1..Len(text[2].segments[2]) |-> LoadSegmentInfo(text[2].segments[2][k])]]]

\* the (segment_id, file_hash, previous_hash) triples the chain is made of
Triple(segment) == <<segment.segment_id, segment.file_hash, segment.previous_hash>>

Triples(segments) == [i \in 1..Len(segments) |-> Triple(segments[i])]

(***************************************************************************)
(* Manifests a client may upload (SegmentChainManifest.model_validate_json)*)
(* and the edits a client may make to one before uploading it again.       *)
(***************************************************************************)
ChainIds == {0, 1, 2}

ChainHashes == {calculate_file_hash(c) : c \in {1, 2}}

SeqsUpTo(S, n) == UNION {[1..k -> S] : k \in 0..n}

\* segment lists whose links hold, with any ids and any file hashes
LinkedSegments(ids, hashes) == [i \in 1..Len(ids) |-> SegmentInfo(ids[i], i - 1, hashes[i], IF i = 1 THEN None ELSE Some(hashes[i - 1]), None, None, None, None)]

LinkedManifests == {SegmentChainManifest("v1", LinkedSegments(ids, hashes), calculate_master_hash(LinkedSegments(ids, hashes)), TRUE) : <<ids, hashes>> \in UNION {[1..k -> ChainIds] \X [1..k -> ChainHashes] : k \in 0..MaxChain}}

InitChain == /\ manifest \in LinkedManifests
             /\ pre = manifest
             /\ op = [name |-> "load", raised |-> FALSE]
             /\ arg = None
             /\ ret = None
             /\ output_dir = <<>>
             /\ origin = [by |-> "upload", signed |-> <<>>]
             /\ NotSigned

\* one edit of the loaded manifest
Tampered(name, a, m) == /\ op.name = "load"
                        /\ manifest' = m
                        /\ pre' = manifest
                        /\ op' = [name |-> name, raised |-> FALSE]
                        /\ arg' = a
                        /\ ret' = None
                        /\ UNCHANGED <<output_dir, origin, signing>>

\* replace the file_hash of the segment at position k, leave everything else
MutateFileHash == \E k \in 1..Len(manifest.segments), h \in ChainHashes \cup {"ff"} : /\ h # manifest.segments[k].file_hash
                                                                                      /\ Tampered("mutate_file_hash", <<k, h>>, [manifest EXCEPT !.segments[k].file_hash = h])

\* replace the previous_hash of the segment at position k
SetPreviousHash == \E k \in 1..Len(manifest.segments), p \in {None} \cup {Some(h) : h \in ChainHashes \cup {"ff"}} : /\ p # manifest.segments[k].previous_hash
                                                                                                                     /\ Tampered("set_previous_hash", <<k, p>>, [manifest EXCEPT !.segments[k].previous_hash = p])

\* exchange the list positions i and j, fields unchanged
SwapSegments == \E i \in 1..Len(manifest.segments), j \in 1..Len(manifest.segments) : /\ i < j
                                                                                      /\ Tampered("swap_segments", <<i, j>>, [manifest EXCEPT !.segments[i] = manifest.segments[j], !.segments[j] = manifest.segments[i]])

\* remove the segment at position k
RemoveSegment == \E k \in 1..Len(manifest.segments) : Tampered("remove_segment", <<k>>, [manifest EXCEPT !.segments = SubSeq(manifest.segments, 1, k - 1) \o SubSeq(manifest.segments, k + 1, Len(manifest.segments))])

\* replace the stored master_hash, by the hash of an empty chain or by the
\* hash recomputed over the segments as they are now (after an edit or not)
SetMasterHash == \E h \in {Sha256Hex(""), calculate_master_hash(manifest.segments)} : /\ h # manifest.master_hash
                                                                                      /\ op.name \notin {"set_master_hash", "validate_chain"}
                                                                                      /\ manifest' = [manifest EXCEPT !.master_hash = h]
                                                                                      /\ pre' = manifest
                                                                                      /\ op' = [name |-> "set_master_hash", raised |-> FALSE]
                                                                                      /\ arg' = <<h>>
                                                                                      /\ ret' = None
                                                                                      /\ UNCHANGED <<output_dir, origin, signing>>

\* manifest.validate_chain()
ValidateChain == /\ op.name # "validate_chain"
                 /\ op' = [name |-> "validate_chain", raised |-> FALSE]
                 /\ ret' = Some(validate_chain(manifest))
                 /\ UNCHANGED <<manifest, pre, arg, output_dir, origin, signing>>

NextChain == \/ MutateFileHash
             \/ SetPreviousHash
             \/ SwapSegments
             \/ RemoveSegment
             \/ SetMasterHash
             \/ ValidateChain

SpecChain == InitChain /\ [][NextChain]_vars

(***************************************************************************)
(* Claims about the chain algorithm, checked under SpecChain.              *)
(***************************************************************************)
\* C3: from a manifest whose validate_chain() is true, replacing the
\* file_hash of one segment (any position, the last included) by a
\* different value and nothing else makes validate_chain() false.
C3_MutatedFileHashBreaksChain == (op.name = "mutate_file_hash" /\ validate_chain(pre)) => ~validate_chain(manifest)

\* the file_hash of the last segment of a valid chain of two or more was replaced
C3_Witness == /\ op.name = "mutate_file_hash"
              /\ validate_chain(pre)
              /\ Len(pre.segments) >= 2
              /\ arg[1] = Len(pre.segments)
              /\ manifest.segments[arg[1]].file_hash # pre.segments[arg[1]].file_hash

NonAdjacentSwap == op.name = "swap_segments" /\ arg[2] - arg[1] >= 2

\* C4 as stated: from a manifest whose validate_chain() is true, swapping
\* any two non-adjacent segments makes validate_chain() false.
C4_AnyNonAdjacentSwapBreaksChain == (NonAdjacentSwap /\ validate_chain(pre)) => ~validate_chain(manifest)

\* C4 as amended: from a manifest whose validate_chain() is true, swapping
\* two non-adjacent segments that differ in segment_id, file_hash or
\* previous_hash makes validate_chain() false.
C4_DistinctNonAdjacentSwapBreaksChain == (NonAdjacentSwap /\ validate_chain(pre) /\ Triple(pre.segments[arg[1]]) # Triple(pre.segments[arg[2]])) => ~validate_chain(manifest)

\* two non-adjacent segments with equal hashes and different ids were swapped
C4_Witness == /\ NonAdjacentSwap
              /\ validate_chain(pre)
              /\ arg[1] > 1
              /\ pre.segments[arg[1]].segment_id # pre.segments[arg[2]].segment_id
              /\ pre.segments[arg[1]].file_hash = pre.segments[arg[2]].file_hash
              /\ pre.segments[arg[1]].previous_hash = pre.segments[arg[2]].previous_hash
              /\ ~validate_chain(manifest)

\* the four conditions of a valid chain, stated without the loop
ChainHolds(m) == /\ Len(m.segments) > 0
                 /\ calculate_master_hash(m.segments) = m.master_hash
                 /\ m.segments[1].previous_hash = None
                 /\ \A i \in 2..Len(m.segments) : m.segments[i].previous_hash = Some(m.segments[i - 1].file_hash)

\* C6: validate_chain() returns true exactly when the list is non-empty,
\* the recomputed master hash equals the stored one, segment 0 has no
\* previous_hash and every later segment's previous_hash is its
\* predecessor's file_hash; otherwise it returns false (a value, no error).
C6_ValidateChainExact == op.name = "validate_chain" => (ret \in {Some(TRUE), Some(FALSE)} /\ ret = Some(ChainHolds(manifest)))

\* Scenario B: segment 1 carries an unrelated previous_hash and validation returned false
C6_Witness == /\ op.name = "validate_chain"
              /\ ret = Some(FALSE)
              /\ Len(manifest.segments) >= 2
              /\ manifest.segments[1].previous_hash = None
              /\ manifest.segments[2].previous_hash = Some("ff")
              /\ calculate_master_hash(manifest.segments) # manifest.master_hash

\* the stored master hash was recomputed after an edit, and validation
\* returned false for a broken link alone
C6_WitnessLinkOnly == /\ op.name = "validate_chain"
                      /\ ret = Some(FALSE)
                      /\ manifest.segments # <<>>
                      /\ calculate_master_hash(manifest.segments) = manifest.master_hash

(***************************************************************************)
(* Files and external tools                                                *)
(***************************************************************************)
\* a path that cannot be read
NoFile == 0

\* the segment files the segmenter can produce
RawContents == {1, 2}

SignOffset == 16

\* c2patool <segment> --manifest <json> --output <path>: the signed artifact
\* is the segment with a manifest embedded, so its bytes differ from the input
c2patool_sign(content) == SignOffset + content

\* c2patool --certs <file>: return code 0 for a file that carries a manifest
verify_c2pa_signature(content) == content > SignOffset

(***************************************************************************)
(* DeepfakeIntegrationInterface                                            *)
(***************************************************************************)
\* the placeholder detector: one entry per path, entry k has segment_id k
analyze_segments(segment_files) == [i \in 1..Len(segment_files) |-> [segment_id |-> i - 1, score |-> 1, confidence |-> 9, model |-> "placeholder_model", metadata |-> "placeholder_metadata"]]

\* Python objects by their type: a dict with its items, a float (in
\* tenths), a bool, a str, None
PyDict(items) == <<"dict", items>>

PyFloat(x) == <<"float", x>>

PyBool(b) == <<"bool", b>>

PyStr(s) == <<"str", s>>

PyNone == <<"NoneType">>

\* isinstance(object, types): bool is a subclass of int
isinstance(object, types) == object[1] \in types \/ (object[1] = "bool" /\ "int" \in types)

\* the value of a number in a comparison: True is 1, False is 0
NumberOf(object) == IF object[1] = "bool" THEN (IF object[2] THEN 10 ELSE 0) ELSE object[2]

\* a validation without the check of the range
RECURSIVE validate_score_format_AnyNumber(_)
validate_score_format_AnyNumber(scores) == IF scores = <<>> THEN TRUE ELSE IF ~isinstance(Head(scores), {"dict"}) THEN FALSE ELSE IF "segment_id" \notin DOMAIN Head(scores)[2] THEN FALSE ELSE IF "score" \notin DOMAIN Head(scores)[2] THEN FALSE ELSE IF ~isinstance(Head(scores)[2].score, {"int", "float"}) THEN FALSE ELSE validate_score_format_AnyNumber(Tail(scores))

\* validate_score_format(scores), entry by entry, on a list of objects
RECURSIVE validate_score_format(_)
validate_score_format(scores) == IF scores = <<>> THEN TRUE ELSE IF ~isinstance(Head(scores), {"dict"}) THEN FALSE ELSE IF "segment_id" \notin DOMAIN Head(scores)[2] THEN FALSE ELSE IF "score" \notin DOMAIN Head(scores)[2] THEN FALSE ELSE IF ~isinstance(Head(scores)[2].score, {"int", "float"}) \/ ~(0 <= NumberOf(Head(scores)[2].score) /\ NumberOf(Head(scores)[2].score) <= 10) THEN FALSE ELSE validate_score_format(Tail(scores))

\* the objects of a list of score entries whose scores are numbers
ScoreObjects(scores) == [j \in 1..Len(scores) |-> PyDict([field \in DOMAIN scores[j] |-> IF field = "score" THEN PyFloat(scores[j][field]) ELSE scores[j][field]])]

(***************************************************************************)
(* Score entries a caller may supply                                       *)
(***************************************************************************)
EntryIds == {-(MaxSegs + 1), -1, 0, 1, MaxSegs}

ScoreEntries == UNION {{[segment_id |-> id, score |-> 9, model |-> "m", confidence |-> 8, metadata |-> "md"], [segment_id |-> id, score |-> 2], [segment_id |-> id, score |-> 15]} : id \in EntryIds} \cup {[score |-> 2]}

EntryLists == SeqsUpTo(ScoreEntries, MaxEntries)

\* the deepfake_scores argument of a signing run: absent, or a list whose
\* ids, where present, are list indexes of segments
SuppliedScores == {None} \cup {Some(l) : l \in {e \in EntryLists : \A j \in 1..Len(e) : "segment_id" \in DOMAIN e[j] => e[j].segment_id \in 0..(MaxSegs - 1)}}

(***************************************************************************)
(* SegmentAuthenticator.process_and_sign_video                             *)
(***************************************************************************)
Min(S) == CHOOSE x \in S : \A y \in S : x <= y

\* next((score for score in deepfake_scores if score.get("segment_id") == i), {})
ScoreFor(deepfake_scores, i) == LET hits == {j \in 1..Len(deepfake_scores) : Get(deepfake_scores[j], "segment_id") = Some(i)} IN IF hits = {} THEN <<>> ELSE deepfake_scores[Min(hits)]

\* segments numbered from 1
SignedSegments_FromOne(segment_files, deepfake_scores) == [k \in 1..Len(segment_files) |-> SegmentInfo(k, k - 1, calculate_file_hash(segment_files[k]), IF k = 1 THEN None ELSE Some(calculate_file_hash(segment_files[k - 1])), Get(ScoreFor(deepfake_scores, k - 1), "score"), Get(ScoreFor(deepfake_scores, k - 1), "model"), Get(ScoreFor(deepfake_scores, k - 1), "confidence"), Get(ScoreFor(deepfake_scores, k - 1), "metadata"))]

\* the SegmentInfo list built by the signing loop: list index k-1 is the
\* segment id and the number of the signed file, previous_hash is the hash
\* recorded for the segment before
SignedSegments(segment_files, deepfake_scores) == [k \in 1..Len(segment_files) |-> SegmentInfo(k - 1, k - 1, calculate_file_hash(segment_files[k]), IF k = 1 THEN None ELSE Some(calculate_file_hash(segment_files[k - 1])), Get(ScoreFor(deepfake_scores, k - 1), "score"), Get(ScoreFor(deepfake_scores, k - 1), "model"), Get(ScoreFor(deepfake_scores, k - 1), "confidence"), Get(ScoreFor(deepfake_scores, k - 1), "metadata"))]

\* steps 5 and 6: master_hash and chain_valid are computed from the segments
AssembleManifest(video_id, segments) == LET unvalidated == SegmentChainManifest(video_id, segments, calculate_master_hash(segments), FALSE) IN [unvalidated EXCEPT !.chain_valid = validate_chain(unvalidated)]

\* step 3: the detector's scores, or the caller's
ResolveScores(segment_files, deepfake_scores) == IF deepfake_scores = None THEN analyze_segments(segment_files) ELSE deepfake_scores[1]

\* the signed files of the first n segment files, written over what was there
WriteSigned(dir, segment_files, n) == [k \in 1..(IF n > Len(dir) THEN n ELSE Len(dir)) |-> IF k <= n THEN c2patool_sign(segment_files[k]) ELSE dir[k]]

SignedFiles(segment_files) == [k \in 1..Len(segment_files) |-> c2patool_sign(segment_files[k])]

\* the external tool that fails in a run, if any; the signer at a list position
Failures == {<<"none">>, <<"segmenter">>, <<"probe">>} \cup {<<"signer", k>> : k \in 1..MaxSegs}

\* the number of segments signed before the run raises, -1 if it does not raise
RaisesAfter(segment_files, deepfake_scores, failure) == IF failure[1] \in {"segmenter", "probe"} THEN 0 ELSE IF deepfake_scores # None /\ ~validate_score_format(ScoreObjects(deepfake_scores[1])) THEN 0 ELSE IF failure[1] = "signer" /\ failure[2] <= Len(segment_files) THEN failure[2] - 1 ELSE -1

NoManifest == SegmentChainManifest("", <<>>, "", FALSE)

\* the files of segments_<video_id>, none if the directory does not exist
DirFiles(temp, video_id) == IF temp.segments_dir[video_id] = None THEN <<>> ELSE temp.segments_dir[video_id][1]

\* ffmpeg -y writes segment_0000.mp4, segment_0001.mp4, ... over the files
\* of the directory; a file with a higher number stays
Overwritten(old, written) == [k \in 1..(IF Len(written) > Len(old) THEN Len(written) ELSE Len(old)) |-> IF k <= Len(written) THEN written[k] ELSE old[k]]

\* segment_video: sorted(segments_dir.glob("segment_*.mp4")) after ffmpeg ran
segment_video(temp, video_id, written) == Overwritten(DirFiles(temp, video_id), written)

\* the run gets as far as the signing loop and c2patool fails there
SignerFails(segment_files, deepfake_scores, failure) == /\ failure[1] = "signer"
                                                        /\ deepfake_scores = None \/ validate_score_format(ScoreObjects(deepfake_scores[1]))
                                                        /\ failure[2] <= Len(segment_files)

\* the tools a run invokes before it ends: ffmpeg in segment_video, then
\* ffmpeg.probe, then c2patool once per segment up to the failing one
ToolCalls(segment_files, deepfake_scores, failure) == IF failure[1] = "segmenter" THEN <<"ffmpeg">> ELSE IF failure[1] = "probe" THEN <<"ffmpeg", "ffprobe">> ELSE IF deepfake_scores # None /\ ~validate_score_format(ScoreObjects(deepfake_scores[1])) THEN <<"ffmpeg", "ffprobe">> ELSE <<"ffmpeg", "ffprobe">> \o [k \in 1..(IF SignerFails(segment_files, deepfake_scores, failure) THEN failure[2] ELSE Len(segment_files)) |-> "c2patool"]

\* temp_dir when the run raises: the segments directory and its files stay,
\* and so does the manifest_seg file written for the segment whose signing
\* failed; sign_segment unlinked the ones of the segments signed before
TempAfterRaise(temp, video_id, segment_files, signer_failed, signed_before) == [segments_dir |-> [temp.segments_dir EXCEPT ![video_id] = Some(segment_files)], manifest_seg |-> [segment_id \in DOMAIN temp.manifest_seg |-> IF segment_id < signed_before THEN None ELSE IF signer_failed /\ segment_id = signed_before THEN Some(video_id) ELSE temp.manifest_seg[segment_id]]]

\* temp_dir when the run returns: every segment file unlinked, the
\* directory removed, each manifest_seg file unlinked by sign_segment
TempAfterReturn(temp, video_id, segment_files) == [segments_dir |-> [temp.segments_dir EXCEPT ![video_id] = None], manifest_seg |-> [segment_id \in DOMAIN temp.manifest_seg |-> IF segment_id < Len(segment_files) THEN None ELSE temp.manifest_seg[segment_id]]]

\* a save that also writes the manifest of a run that raised
ManifestFilesAfter_Partial(files, video_id, raised, m) == [files EXCEPT ![manifest_output_path(video_id)] = Some(model_dump_json(m))]

\* sign_video_segments saves manifest_<video_id>.json after
\* process_and_sign_video has returned, and not when it raised
ManifestFilesAfter(files, video_id, raised, m) == IF raised THEN files ELSE [files EXCEPT ![manifest_output_path(video_id)] = Some(model_dump_json(m))]

Init == /\ manifest = NoManifest
        /\ pre = NoManifest
        /\ op = [name |-> "init", raised |-> FALSE]
        /\ arg = None
        /\ ret = None
        /\ output_dir = <<>>
        /\ origin = [by |-> "none", signed |-> <<>>]
        /\ NotSigned

\* the run raised: no manifest is returned, the signed files written before
\* the failing step stay, and so do the working files
ProcessRaised(name, video_id, written, segment_files, deepfake_scores, failure, signed_before) == /\ op' = [name |-> name, raised |-> TRUE]
                                                                                                  /\ arg' = [video_id |-> video_id, segment_files |-> written, deepfake_scores |-> deepfake_scores, failure |-> failure]
                                                                                                  /\ ret' = None
                                                                                                  /\ output_dir' = WriteSigned(output_dir, segment_files, signed_before)
                                                                                                  /\ temp_dir' = TempAfterRaise(temp_dir, video_id, segment_files, SignerFails(segment_files, deepfake_scores, failure), signed_before)
                                                                                                  /\ pre' = NoManifest
                                                                                                  /\ UNCHANGED <<manifest, origin>>

\* the run returned (manifest, signed_segment_paths)
ProcessReturned(name, video_id, written, segment_files, deepfake_scores) == /\ op' = [name |-> name, raised |-> FALSE]
                                                                            /\ arg' = [video_id |-> video_id, segment_files |-> written, deepfake_scores |-> deepfake_scores, failure |-> <<"none">>]
                                                                            /\ manifest' = AssembleManifest(video_id, SignedSegments(segment_files, ResolveScores(segment_files, deepfake_scores)))
                                                                            /\ output_dir' = WriteSigned(output_dir, segment_files, Len(segment_files))
                                                                            /\ temp_dir' = TempAfterReturn(temp_dir, video_id, segment_files)
                                                                            /\ ret' = Some([k \in 1..Len(segment_files) |-> k - 1])
                                                                            /\ origin' = [by |-> "process_and_sign_video", signed |-> SignedFiles(segment_files)]
                                                                            /\ pre' = NoManifest

\* one run of process_and_sign_video, called under the given name
Run(name, video_id, written, deepfake_scores, failure) == LET segment_files == IF failure[1] = "segmenter" THEN DirFiles(temp_dir, video_id) ELSE segment_video(temp_dir, video_id, written) IN
                                                              /\ runs < MaxRuns
                                                              /\ runs' = runs + 1
                                                              /\ UNCHANGED <<saving, tasks>>
                                                              /\ calls' = ToolCalls(segment_files, deepfake_scores, failure)
                                                              /\ IF RaisesAfter(segment_files, deepfake_scores, failure) >= 0 THEN ProcessRaised(name, video_id, written, segment_files, deepfake_scores, failure, RaisesAfter(segment_files, deepfake_scores, failure))
                                                                 ELSE ProcessReturned(name, video_id, written, segment_files, deepfake_scores)

\* SegmentAuthenticator.process_and_sign_video called directly
ProcessAndSignVideo == \E video_id \in VideoIds, segment_files \in SeqsUpTo(RawContents, MaxSegs), deepfake_scores \in SuppliedScores, failure \in Failures :
                           /\ Run("process_and_sign_video", video_id, segment_files, deepfake_scores, failure)
                           /\ UNCHANGED manifest_files

\* POST /sign_segments from the call of process_and_sign_video on: the
\* manifest is saved when the run returned; the uploaded input video is
\* removed on both ways out
SignVideoSegments == \E video_id \in VideoIds, segment_files \in SeqsUpTo(RawContents, MaxSegs), deepfake_scores \in SuppliedScores, failure \in Failures :
                         /\ Run("sign_video_segments", video_id, segment_files, deepfake_scores, failure)
                         /\ manifest_files' = ManifestFilesAfter(manifest_files, video_id, op'.raised, manifest')

Next == \/ ProcessAndSignVideo
        \/ SignVideoSegments

Spec == Init /\ [][Next]_vars

\* a signing run has just ended
Ran == op.name \in {"process_and_sign_video", "sign_video_segments"}

\* C1: every manifest returned by process_and_sign_video, whatever the
\* number of segment files the segmenter produced, passes validate_chain().
C1_ReturnedManifestValidates == (Ran /\ ~op.raised) => validate_chain(manifest)

\* read beside C1: a returned manifest with at least one segment validates
ReturnedNonEmptyManifestValidates == (Ran /\ ~op.raised /\ manifest.segments # <<>>) => (validate_chain(manifest) /\ manifest.chain_valid)

(***************************************************************************)
(* Claims about the failure policy of a signing run, checked under Spec.   *)
(***************************************************************************)
\* the number of times the last run invoked c2patool
SignerCalls == Cardinality({i \in DOMAIN calls : calls[i] = "c2patool"})

\* C14: a run in which the segmenter, the probe, the validation of the
\* supplied scores or the signing of a segment fails raises and returns no
\* manifest, and the handler saves no manifest file; a manifest file is
\* written only by a run that returned, for its own video, and every
\* segment of it has the hash of its segment file and a signed file.
C14_FailedRunLeavesNoManifest == [][LET segment_files == segment_video(temp_dir, arg'.video_id, arg'.segment_files)
                                        failed == \/ arg'.failure[1] \in {"segmenter", "probe"}
                                                  \/ arg'.deepfake_scores # None /\ ~validate_score_format(ScoreObjects(arg'.deepfake_scores[1]))
                                                  \/ arg'.failure[1] = "signer" /\ arg'.failure[2] <= Len(segment_files)
                                    IN /\ failed => (op'.raised /\ ret' = None /\ manifest' = manifest /\ manifest_files' = manifest_files)
                                       /\ \A v \in VideoIds : manifest_files'[manifest_output_path(v)] # manifest_files[manifest_output_path(v)] => (/\ ~op'.raised
                                                                                                         /\ v = arg'.video_id
                                                                                                         /\ manifest_files'[manifest_output_path(v)] = Some(model_dump_json(manifest'))
                                                                                                         /\ Len(manifest'.segments) = Len(segment_files)
                                                                                                         /\ \A k \in 1..Len(segment_files) : (/\ manifest'.segments[k].file_hash = calculate_file_hash(segment_files[k])
                                                                                                                                              /\ output_dir'[k] = c2patool_sign(segment_files[k])))]_vars

\* the handler's run raised at the signing of the second segment, after the
\* first was signed, and there is no manifest file for the video
C14_Witness == /\ op.name = "sign_video_segments"
               /\ op.raised
               /\ calls = <<"ffmpeg", "ffprobe", "c2patool", "c2patool">>
               /\ Len(output_dir) >= 1
               /\ manifest_files[manifest_output_path(arg.video_id)] = None

\* C15: when a run has ended, returned or raised, none of its working files
\* remain: no segments directory for its video_id (hence no segment file)
\* and no manifest_seg file of a segment it signed or tried to sign.
C15_NoWorkingFilesRemain == Ran => (/\ temp_dir.segments_dir[arg.video_id] = None
                                    /\ \A k \in 1..SignerCalls : temp_dir.manifest_seg[k - 1] = None)

\* read beside C15: a run that returned has left none of its working files
ReturnedRunLeavesNoWorkingFiles == (Ran /\ ~op.raised) => (/\ temp_dir.segments_dir[arg.video_id] = None
                                                           /\ \A k \in 1..SignerCalls : temp_dir.manifest_seg[k - 1] = None)

\* C16: a run given scores that fail validate_score_format is rejected
\* before any external tool has been invoked.
C16_InvalidScoresRejectedBeforeTools == (Ran /\ arg.deepfake_scores # None /\ ~validate_score_format(ScoreObjects(arg.deepfake_scores[1]))) => (op.raised /\ calls = <<>>)

\* read beside C16: such a run is rejected before the signer is invoked
InvalidScoresRejectedBeforeSigning == (Ran /\ arg.deepfake_scores # None /\ ~validate_score_format(ScoreObjects(arg.deepfake_scores[1]))) => (op.raised /\ SignerCalls = 0)

\* C17: a run for one video_id does not create, overwrite or delete a
\* signed segment file that the saved manifest of another video_id refers to.
C17_LaterRunKeepsSignedFiles == [][\A v \in VideoIds : (manifest_files[manifest_output_path(v)] # None /\ arg'.video_id # v) => \A k \in 1..Len(model_validate_json(manifest_files[manifest_output_path(v)][1]).manifest.segments) : (k <= Len(output_dir') /\ output_dir'[k] = output_dir[k])]_vars

\* read beside C17: no run deletes a signed segment file
NoRunDeletesSignedFiles == [][\A k \in 1..Len(output_dir) : k <= Len(output_dir')]_vars

(***************************************************************************)
(* The states in which process_and_sign_video has just returned.           *)
(***************************************************************************)
InitSigned == \E video_id \in VideoIds, segment_files \in SeqsUpTo(RawContents, MaxSegs), deepfake_scores \in SuppliedScores :
                  /\ RaisesAfter(segment_files, deepfake_scores, <<"none">>) < 0
                  /\ manifest = AssembleManifest(video_id, SignedSegments(segment_files, ResolveScores(segment_files, deepfake_scores)))
                  /\ pre = NoManifest
                  /\ op = [name |-> "process_and_sign_video", raised |-> FALSE]
                  /\ arg = [video_id |-> video_id, segment_files |-> segment_files, deepfake_scores |-> deepfake_scores, failure |-> <<"none">>]
                  /\ temp_dir = EmptyTempDir
                  /\ manifest_files = NoManifestFiles
                  /\ calls = ToolCalls(segment_files, deepfake_scores, <<"none">>)
                  /\ runs = 1
                  /\ saving = None
                  /\ tasks = NoTasks
                  /\ ret = Some([k \in 1..Len(segment_files) |-> k - 1])
                  /\ output_dir = SignedFiles(segment_files)
                  /\ origin = [by |-> "process_and_sign_video", signed |-> SignedFiles(segment_files)]

(***************************************************************************)
(* update_deepfake_scores: the manifest method and the HTTP handler        *)
(***************************************************************************)
\* an update that also rewrites the content hash of the segment it scores
UpdatedSegment_Rehashed(segment, score_entry, with_metadata) == [segment EXCEPT !.deepfake_score = Get(score_entry, "score"), !.file_hash = "00"]

\* the assignments of one update: score, model, confidence and, in the
\* method only, metadata
UpdatedSegment(segment, score_entry, with_metadata) == [segment EXCEPT !.deepfake_score = Get(score_entry, "score"), !.deepfake_model = GetOr(score_entry, "model", "unknown"), !.deepfake_confidence = Get(score_entry, "confidence"), !.deepfake_metadata = IF with_metadata THEN GetOr(score_entry, "metadata", "{}") ELSE @]

\* self.segments[segment_id]: a negative index counts from the end of the
\* list; the result 0 stands for the IndexError of an index below -len
ListPosition(segments, segment_id) == IF segment_id >= 0 THEN segment_id + 1 ELSE IF segment_id >= -Len(segments) THEN Len(segments) + segment_id + 1 ELSE 0

\* the loop over scores_data, entry by entry, on a list mutated in place
RECURSIVE ApplyScores(_, _, _, _)
ApplyScores(segments, scores_data, updated_count, with_metadata) == IF scores_data = <<>> THEN [segments |-> segments, updated_count |-> updated_count, raised |-> FALSE] ELSE LET segment_id == Get(Head(scores_data), "segment_id") IN IF segment_id # None /\ segment_id[1] < Len(segments) THEN (IF ListPosition(segments, segment_id[1]) = 0 THEN [segments |-> segments, updated_count |-> updated_count, raised |-> TRUE] ELSE ApplyScores([segments EXCEPT ![ListPosition(segments, segment_id[1])] = UpdatedSegment(@, Head(scores_data), with_metadata)], Tail(scores_data), updated_count + 1, with_metadata)) ELSE ApplyScores(segments, Tail(scores_data), updated_count, with_metadata)

\* the score entries of an update: those of a signing run, and one whose
\* model is not a string
UpdateEntries == ScoreEntries \cup {[segment_id |-> 0, score |-> 2, model |-> NotAStr]}

UpdateLists == SeqsUpTo(UpdateEntries, MaxEntries)

\* the manifest at hand is the object a signing run returned, not yet sent
\* through the update handler
InMemory == \A v \in VideoIds : manifest_files[updated_manifest_output_path(v)] = None

\* SegmentChainManifest.update_deepfake_scores(scores_data): the segments
\* are mutated in place, so the entries applied before an error stay applied
UpdateDeepfakeScores == \E scores_data \in UpdateLists : LET outcome == ApplyScores(manifest.segments, scores_data, 0, TRUE) IN
                            /\ InMemory
                            /\ manifest' = [manifest EXCEPT !.segments = outcome.segments]
                            /\ pre' = manifest
                            /\ op' = [name |-> "update_deepfake_scores", raised |-> outcome.raised]
                            /\ arg' = scores_data
                            /\ ret' = IF outcome.raised THEN None ELSE Some(outcome.updated_count)
                            /\ UNCHANGED <<output_dir, origin, signing>>

\* POST /update_deepfake_scores: the client uploads the manifest at hand as
\* a file; the file is parsed, the scores are applied and the result is
\* saved as manifest_<video_id>_updated.json; on an error nothing is saved
UpdateScoresEndpoint == \E scores_data \in UpdateLists : \E segment_manifest \in {model_validate_json(model_dump_json(manifest))} :
                            \E outcome \in {IF segment_manifest.raised THEN [raised |-> TRUE] ELSE ApplyScores(segment_manifest.manifest.segments, scores_data, 0, FALSE)} :
                               /\ manifest' = IF outcome.raised THEN manifest ELSE [segment_manifest.manifest EXCEPT !.segments = outcome.segments]
                               /\ pre' = manifest
                               /\ op' = [name |-> "update_scores_endpoint", raised |-> outcome.raised]
                               /\ arg' = scores_data
                               /\ ret' = IF outcome.raised THEN None ELSE Some(outcome.updated_count)
                               /\ manifest_files' = IF outcome.raised THEN manifest_files ELSE [manifest_files EXCEPT ![updated_manifest_output_path(manifest.video_id)] = Some(model_dump_json(manifest'))]
                               /\ UNCHANGED <<output_dir, origin, temp_dir, calls, runs, saving, tasks>>

NextUpdate == \/ UpdateDeepfakeScores
              \/ UpdateScoresEndpoint

SpecUpdate == InitSigned /\ [][NextUpdate]_vars

Updated == op.name \in {"update_deepfake_scores", "update_scores_endpoint"}

\* the fields of a segment that an update may change
DeepfakeFields == {"deepfake_score", "deepfake_model", "deepfake_confidence", "deepfake_metadata"}

\* every field of every segment outside the deepfake fields is as before
ChainFieldsKept(before, after) == /\ Len(after.segments) = Len(before.segments)
                                  /\ \A k \in 1..Len(before.segments) : \A f \in (DOMAIN before.segments[k]) \ DeepfakeFields : after.segments[k][f] = before.segments[k][f]

\* C7: an update_deepfake_scores call, with any entry list, leaves every
\* segment's segment_id, file_hash and previous_hash, the stored
\* master_hash and chain_valid, the recomputed master hash and the result
\* of validate_chain() as they were; only the deepfake fields may change.
C7_UpdateKeepsChain == Updated => (/\ ChainFieldsKept(pre, manifest)
                                   /\ manifest.master_hash = pre.master_hash
                                   /\ manifest.chain_valid = pre.chain_valid
                                   /\ manifest.total_segments = pre.total_segments
                                   /\ calculate_master_hash(manifest.segments) = calculate_master_hash(pre.segments)
                                   /\ validate_chain(manifest) = validate_chain(pre))

\* a second update in a row changed a score of a manifest whose chain holds
C7_Witness == /\ Updated
              /\ ~op.raised
              /\ ret = Some(1)
              /\ validate_chain(manifest)
              /\ pre.segments # manifest.segments
              /\ \E k \in 1..Len(pre.segments) : pre.segments[k].deepfake_model = Some("unknown")

\* the entry names no segment of the manifest: no id, a negative id, or an
\* id at or beyond the number of segments
UnknownId(score_entry, m) == \/ "segment_id" \notin DOMAIN score_entry
                             \/ score_entry.segment_id < 0
                             \/ score_entry.segment_id >= Len(m.segments)

\* C8: entries whose segment_id is the id of no segment are ignored: the
\* call modifies no segment, counts no update and raises no error.
C8_UnknownIdIgnored == (Updated /\ \A j \in 1..Len(arg) : UnknownId(arg[j], pre)) => (manifest = pre /\ ret = Some(0) /\ ~op.raised)

\* read beside C8: missing ids and ids at or beyond the number of segments are ignored
TooLargeOrMissingIdIgnored == (Updated /\ \A j \in 1..Len(arg) : ("segment_id" \notin DOMAIN arg[j] \/ arg[j].segment_id >= Len(pre.segments))) => (manifest = pre /\ ret = Some(0) /\ ~op.raised)

\* C19: in a manifest returned by process_and_sign_video and then updated
\* by any sequence of update_deepfake_scores calls, each segment's
\* deepfake_score is None or lies within [0,1].
C19_ScoresInRange == \A k \in 1..Len(manifest.segments) : (manifest.segments[k].deepfake_score = None \/ (0 <= manifest.segments[k].deepfake_score[1] /\ manifest.segments[k].deepfake_score[1] <= 10))

\* read beside C19: the scores of a manifest as process_and_sign_video
\* returned it, validated or from the placeholder detector, are in range
ReturnedScoresInRange == op.name = "process_and_sign_video" => C19_ScoresInRange

(***************************************************************************)
(* SegmentAuthenticator.verify_segment_chain                               *)
(***************************************************************************)
\* the files a caller may pass: unreadable, a segment as the segmenter
\* wrote it, or a segment as the signer wrote it
FileInputs == {NoFile} \cup RawContents \cup {c2patool_sign(c) : c \in RawContents}

Thresholds == {5, 9}

\* zip(manifest.segments, segment_paths) stops at the shorter of the two
Zipped(segments, segment_paths) == 1..(IF Len(segments) < Len(segment_paths) THEN Len(segments) ELSE Len(segment_paths))

\* calculate_file_hash opens the file: an unreadable path raises, and the
\* except branch records the error for that segment
Readable(segment_path) == segment_path # NoFile

\* a loop body that does not compare the hash of the file it read
SegmentVerificationResult_HashUnchecked(segment_info, segment_path, k, deepfake_threshold) == IF Readable(segment_path) THEN [segment_id |-> k - 1, c2pa_valid |-> verify_c2pa_signature(segment_path), hash_valid |-> TRUE, deepfake_flagged |-> (segment_info.deepfake_score # None /\ segment_info.deepfake_score[1] > deepfake_threshold), deepfake_score |-> segment_info.deepfake_score, error_message |-> None] ELSE [segment_id |-> k - 1, c2pa_valid |-> FALSE, hash_valid |-> FALSE, deepfake_flagged |-> FALSE, deepfake_score |-> segment_info.deepfake_score, error_message |-> Some("cannot read file")]

\* one pass of the loop body for list position k
SegmentVerificationResult(segment_info, segment_path, k, deepfake_threshold) == IF Readable(segment_path) THEN [segment_id |-> k - 1, c2pa_valid |-> verify_c2pa_signature(segment_path), hash_valid |-> (calculate_file_hash(segment_path) = segment_info.file_hash), deepfake_flagged |-> (segment_info.deepfake_score # None /\ segment_info.deepfake_score[1] > deepfake_threshold), deepfake_score |-> segment_info.deepfake_score, error_message |-> None] ELSE [segment_id |-> k - 1, c2pa_valid |-> FALSE, hash_valid |-> FALSE, deepfake_flagged |-> FALSE, deepfake_score |-> segment_info.deepfake_score, error_message |-> Some("cannot read file")]

\* an overall verdict that does not count the valid hashes and signatures
OverallAuthentic_CountsIgnored(chain_valid, valid_c2pa_count, valid_hash_count, deepfake_flagged_count, result_count) == chain_valid /\ deepfake_flagged_count = 0

\* an overall verdict that leaves the deepfake flags out
OverallAuthentic_FlagsIgnored(chain_valid, valid_c2pa_count, valid_hash_count, deepfake_flagged_count, result_count) == chain_valid /\ valid_c2pa_count = result_count /\ valid_hash_count = result_count

\* chain_valid and all_signatures_valid and all_hashes_valid and no_deepfakes_detected
OverallAuthentic(chain_valid, valid_c2pa_count, valid_hash_count, deepfake_flagged_count, result_count) == chain_valid /\ valid_c2pa_count = result_count /\ valid_hash_count = result_count /\ deepfake_flagged_count = 0

\* a chain validity read from the stored field
RecomputedChainValid_Stored(m) == m.chain_valid

\* chain_valid = manifest.validate_chain(), after the loop
RecomputedChainValid(m) == validate_chain(m)

\* the counters are incremented inside the try block, pass by pass
verify_segment_chain(m, segment_paths, deepfake_threshold) == LET zipped == Zipped(m.segments, segment_paths)
                                                                  passed == {k \in zipped : Readable(segment_paths[k])}
                                                                  valid_hash_count == Cardinality({k \in passed : calculate_file_hash(segment_paths[k]) = m.segments[k].file_hash})
                                                                  valid_c2pa_count == Cardinality({k \in passed : verify_c2pa_signature(segment_paths[k])})
                                                                  deepfake_flagged_count == Cardinality({k \in passed : m.segments[k].deepfake_score # None /\ m.segments[k].deepfake_score[1] > deepfake_threshold})
                                                                  segment_results == [k \in zipped |-> SegmentVerificationResult(m.segments[k], segment_paths[k], k, deepfake_threshold)]
                                                              IN [overall_authentic |-> OverallAuthentic(RecomputedChainValid(m), valid_c2pa_count, valid_hash_count, deepfake_flagged_count, Len(segment_results)), chain_valid |-> RecomputedChainValid(m), segment_results |-> segment_results, total_segments |-> Len(segment_results), valid_c2pa_signatures |-> valid_c2pa_count, valid_hashes |-> valid_hash_count, deepfake_flagged_count |-> deepfake_flagged_count, deepfake_threshold |-> deepfake_threshold]

\* a verification is run again, on the same arguments, after one edit of the
\* manifest or of a file; the second verification ends the scenario
Reverifying == op.name \in {"set_chain_valid", "alter_segment_file", "verify_segment_chain_again"}

VerifySegmentChain == \E segment_paths \in SeqsUpTo(FileInputs, MaxSegs), deepfake_threshold \in Thresholds :
                          /\ ~Reverifying
                          /\ op' = [name |-> "verify_segment_chain", raised |-> FALSE]
                          /\ arg' = [segment_paths |-> segment_paths, deepfake_threshold |-> deepfake_threshold]
                          /\ ret' = Some(verify_segment_chain(manifest, segment_paths, deepfake_threshold))
                          /\ pre' = manifest
                          /\ UNCHANGED <<manifest, output_dir, origin, signing>>

\* the manifest with each file_hash taken from the signed file delivered
\* for the segment, relinked
Rehashed(segments, signed) == [k \in 1..Len(segments) |-> [segments[k] EXCEPT !.file_hash = calculate_file_hash(signed[k]), !.previous_hash = IF k = 1 THEN None ELSE Some(calculate_file_hash(signed[k - 1]))]]

\* POST /verify_segments parses whatever manifest JSON the client uploads:
\* here the returned manifest with its hashes recomputed over the signed
\* files, with or without the master hash brought up to date
UploadManifest == \E fix_master \in BOOLEAN :
                      /\ origin.by = "process_and_sign_video"
                      /\ op.name = "process_and_sign_video"
                      /\ manifest' = [manifest EXCEPT !.segments = Rehashed(manifest.segments, origin.signed), !.master_hash = IF fix_master THEN calculate_master_hash(Rehashed(manifest.segments, origin.signed)) ELSE @]
                      /\ origin' = [origin EXCEPT !.by = "upload"]
                      /\ op' = [name |-> "upload_manifest", raised |-> FALSE]
                      /\ arg' = fix_master
                      /\ pre' = manifest
                      /\ ret' = None
                      /\ UNCHANGED <<output_dir, signing>>

\* the client sets the stored total_segments of the manifest it uploads
SetTotalSegments == \E n \in 0..MaxSegs :
                        /\ op.name \in {"process_and_sign_video", "upload_manifest"}
                        /\ n # manifest.total_segments
                        /\ manifest' = [manifest EXCEPT !.total_segments = n]
                        /\ origin' = [origin EXCEPT !.by = "upload"]
                        /\ op' = [name |-> "set_total_segments", raised |-> FALSE]
                        /\ arg' = n
                        /\ pre' = manifest
                        /\ ret' = None
                        /\ UNCHANGED <<output_dir, signing>>

\* POST /verify_segments: the uploaded files are written to temp_dir, so
\* each can be read; the number of files is compared with the stored
\* total_segments, and the temporary files are removed on both ways out
VerifyVideoSegments == \E segments \in SeqsUpTo(FileInputs \ {NoFile}, MaxSegs), deepfake_threshold \in Thresholds :
                           /\ ~Reverifying
                           /\ op' = [name |-> "verify_video_segments", raised |-> Len(segments) # manifest.total_segments]
                           /\ arg' = [segment_paths |-> segments, deepfake_threshold |-> deepfake_threshold]
                           /\ ret' = IF Len(segments) # manifest.total_segments THEN None ELSE Some(verify_segment_chain(manifest, segments, deepfake_threshold))
                           /\ pre' = manifest
                           /\ UNCHANGED <<manifest, output_dir, origin, signing>>

\* after a verification, the stored chain_valid of the manifest is flipped
SetChainValid == /\ op.name = "verify_segment_chain"
                 /\ manifest' = [manifest EXCEPT !.chain_valid = ~@]
                 /\ origin' = [origin EXCEPT !.by = "upload"]
                 /\ op' = [name |-> "set_chain_valid", raised |-> FALSE]
                 /\ arg' = [segment_paths |-> arg.segment_paths, deepfake_threshold |-> arg.deepfake_threshold, previous |-> ret[1], altered |-> 0]
                 /\ pre' = manifest
                 /\ ret' = None
                 /\ UNCHANGED <<output_dir, signing>>

\* after a verification, the bytes of the k-th file are replaced by others
AlterSegmentFile == op.name = "verify_segment_chain" /\ \E k \in 1..Len(arg.segment_paths), content \in FileInputs \ {NoFile} :
                        /\ arg.segment_paths[k] # NoFile
                        /\ content # arg.segment_paths[k]
                        /\ op' = [name |-> "alter_segment_file", raised |-> FALSE]
                        /\ arg' = [segment_paths |-> [arg.segment_paths EXCEPT ![k] = content], deepfake_threshold |-> arg.deepfake_threshold, previous |-> ret[1], altered |-> k]
                        /\ pre' = manifest
                        /\ ret' = None
                        /\ UNCHANGED <<manifest, output_dir, origin, signing>>

\* verify_segment_chain once more, with the manifest and the files as they are now
VerifySegmentChainAgain == /\ op.name \in {"set_chain_valid", "alter_segment_file"}
                           /\ op' = [name |-> "verify_segment_chain_again", raised |-> FALSE, after |-> op.name]
                           /\ ret' = Some(verify_segment_chain(manifest, arg.segment_paths, arg.deepfake_threshold))
                           /\ UNCHANGED <<manifest, pre, arg, output_dir, origin, signing>>

NextVerify == \/ VerifySegmentChain
              \/ UploadManifest
              \/ SetTotalSegments
              \/ VerifyVideoSegments
              \/ SetChainValid
              \/ AlterSegmentFile
              \/ VerifySegmentChainAgain

SpecVerify == InitSigned /\ [][NextVerify]_vars

Verified == op.name = "verify_segment_chain"

Results == ret[1].segment_results

\* C2: the signed files returned by process_and_sign_video, passed
\* unmodified and in order to verify_segment_chain with the returned
\* manifest, all have hash_valid true.
C2_SignedFilesHashValid == (Verified /\ origin.by = "process_and_sign_video" /\ arg.segment_paths = origin.signed) => \A k \in 1..Len(Results) : Results[k].hash_valid

\* read beside C2: the signed file of a returned manifest never has the recorded hash
SignedFileNeverHashValid == (Verified /\ origin.by = "process_and_sign_video" /\ arg.segment_paths = origin.signed) => \A k \in 1..Len(Results) : ~Results[k].hash_valid

\* C9: overall_authentic is true if and only if the recomputed chain
\* validity is true, every segment result has hash_valid and c2pa_valid
\* true, and no segment result has deepfake_flagged true.
C9_OverallAuthenticExact == Verified => (/\ ret[1].chain_valid = validate_chain(manifest)
                                         /\ ret[1].overall_authentic = (/\ ret[1].chain_valid
                                                                        /\ \A k \in 1..Len(Results) : Results[k].hash_valid /\ Results[k].c2pa_valid /\ ~Results[k].deepfake_flagged))

\* two segments were verified with a threshold their scores do not exceed
\* and the report is authentic; one of them has the threshold as its score
C9_Witness == /\ Verified
              /\ ret[1].overall_authentic
              /\ Len(Results) = 2
              /\ \E k \in 1..2 : Results[k].deepfake_score = Some(arg.deepfake_threshold)

\* every condition but the flag holds and the report is not authentic
C9_WitnessFlagged == /\ Verified
                     /\ ~ret[1].overall_authentic
                     /\ ret[1].chain_valid
                     /\ Len(Results) >= 1
                     /\ \A k \in 1..Len(Results) : Results[k].hash_valid /\ Results[k].c2pa_valid
                     /\ \E k \in 1..Len(Results) : Results[k].deepfake_flagged

\* C10: a report has one segment result per segment of the manifest, in
\* manifest order, so an authentic report means that a file was checked
\* and found hash_valid and c2pa_valid for every segment of the manifest.
C10_OneResultPerSegment == Verified => (/\ Len(Results) = Len(manifest.segments)
                                        /\ \A k \in 1..Len(Results) : Results[k].segment_id = k - 1
                                        /\ ret[1].overall_authentic => \A k \in 1..Len(manifest.segments) : k <= Len(Results) /\ Results[k].hash_valid /\ Results[k].c2pa_valid)

\* read beside C10: there is one result per zipped pair, in order
OneResultPerProvidedFile == Verified => (/\ Len(Results) <= Len(manifest.segments)
                                         /\ Len(Results) <= Len(arg.segment_paths)
                                         /\ (Len(Results) = Len(manifest.segments) \/ Len(Results) = Len(arg.segment_paths))
                                         /\ \A k \in 1..Len(Results) : Results[k].segment_id = k - 1)

\* C11: when the number of files given to the verify-segments operation
\* differs from the number of segments of the manifest, the operation
\* fails as a whole and produces no report.
C11_CountMismatchFails == (op.name = "verify_video_segments" /\ Len(arg.segment_paths) # Len(manifest.segments)) => (op.raised /\ ret = None)

\* read beside C11: the operation fails when the number of files differs
\* from the stored total_segments
StoredCountMismatchFails == (op.name = "verify_video_segments" /\ Len(arg.segment_paths) # manifest.total_segments) => (op.raised /\ ret = None)

Reverified(edit) == op.name = "verify_segment_chain_again" /\ op.after = edit

\* the four fields of a segment result that the claim compares
SameVerdict(r1, r2) == /\ r1.hash_valid = r2.hash_valid
                       /\ r1.c2pa_valid = r2.c2pa_valid
                       /\ r1.deepfake_flagged = r2.deepfake_flagged
                       /\ r1.deepfake_score = r2.deepfake_score

\* C12: after a verification in which every result has hash_valid true,
\* altering the bytes of the file of one segment k and verifying again
\* gives hash_valid false for result k and overall_authentic false, and for
\* every other segment the same hash_valid, c2pa_valid, deepfake_flagged
\* and deepfake_score as before.
C12_AlteredFileIsolated == (/\ Reverified("alter_segment_file")
                            /\ arg.altered <= Len(arg.previous.segment_results)
                            /\ \A j \in 1..Len(arg.previous.segment_results) : arg.previous.segment_results[j].hash_valid)
                               => (/\ Len(Results) = Len(arg.previous.segment_results)
                                   /\ ~Results[arg.altered].hash_valid
                                   /\ ~ret[1].overall_authentic
                                   /\ \A j \in 1..Len(Results) : j # arg.altered => SameVerdict(Results[j], arg.previous.segment_results[j]))

\* an authentic report over two files, then the first file altered: its
\* result alone changed
C12_Witness == /\ Reverified("alter_segment_file")
               /\ arg.previous.overall_authentic
               /\ Len(Results) = 2
               /\ arg.altered = 1
               /\ ~Results[1].hash_valid
               /\ Results[2].hash_valid /\ Results[2].c2pa_valid
               /\ ~ret[1].overall_authentic

C18_StoredChainValidIgnored == Reverified("set_chain_valid") => (/\ manifest = [pre EXCEPT !.chain_valid = ~@]
                                                                 /\ ret[1].chain_valid = arg.previous.chain_valid
                                                                 /\ ret[1].overall_authentic = arg.previous.overall_authentic
                                                                 /\ ret[1] = arg.previous
                                                                 /\ ret[1].chain_valid = validate_chain(manifest))

\* the stored chain_valid says false, the report says true and authentic
C18_Witness == /\ Reverified("set_chain_valid")
               /\ ~manifest.chain_valid
               /\ ret[1].chain_valid
               /\ ret[1].overall_authentic
               /\ Len(Results) >= 1

\* the stored chain_valid of a manifest without segments says true, the
\* report says false
C18_WitnessStoredTrue == /\ Reverified("set_chain_valid")
                         /\ manifest.chain_valid
                         /\ ~ret[1].chain_valid

(***************************************************************************)
(* calculate_master_hash on two segment lists                              *)
(***************************************************************************)
\* non-negative ids and hex strings, short enough to enumerate
HashIds == {2, 12}

HexStrings == {"1", "a"}

HashSegments == {SegmentInfo(id, 0, fh, prev, None, None, None, None) : id \in HashIds, fh \in HexStrings, prev \in {None} \cup {Some(h) : h \in HexStrings}}

InitHash == /\ manifest \in {SegmentChainManifest("v1", segments, "", FALSE) : segments \in SeqsUpTo(HashSegments, MaxSegs)}
            /\ arg \in SeqsUpTo(HashSegments, MaxSegs)
            /\ pre = manifest
            /\ op = [name |-> "load", raised |-> FALSE]
            /\ ret = None
            /\ output_dir = <<>>
            /\ origin = [by |-> "upload", signed |-> <<>>]
            /\ NotSigned

\* the master hash of the manifest's list and of the other list
CalculateMasterHash == /\ op.name = "load"
                       /\ op' = [name |-> "calculate_master_hash", raised |-> FALSE]
                       /\ ret' = Some(<<calculate_master_hash(manifest.segments), calculate_master_hash(arg)>>)
                       /\ manifest' = [manifest EXCEPT !.master_hash = calculate_master_hash(manifest.segments)]
                       /\ UNCHANGED <<pre, arg, output_dir, origin, signing>>

NextHash == CalculateMasterHash

SpecHash == InitHash /\ [][NextHash]_vars

\* C5: two segment lists that differ in their (segment_id, file_hash,
\* previous_hash) triples - by a reorder, an insertion, a deletion or a
\* changed id or hash - never have the same hash input, hence never the
\* same master hash.
C5_HashInputUnambiguous == (op.name = "calculate_master_hash" /\ Triples(manifest.segments) # Triples(arg)) => (HashInput(manifest.segments) # HashInput(arg) /\ ret[1][1] # ret[1][2])

\* read beside C5: lists that differ in one file_hash only have different master hashes
OneFileHashChangesMasterHash == (op.name = "calculate_master_hash" /\ Len(arg) = Len(manifest.segments) /\ Cardinality({k \in 1..Len(arg) : arg[k] # manifest.segments[k]}) = 1 /\ \A k \in 1..Len(arg) : [arg[k] EXCEPT !.file_hash = "0"] = [manifest.segments[k] EXCEPT !.file_hash = "0"]) => ret[1][1] # ret[1][2]

(***************************************************************************)
(* SegmentChainManifest.get_deepfake_flagged_segments                      *)
(***************************************************************************)
\* the entry of the flagged list for one segment (the times of the segment
\* are not modelled)
FlaggedEntry(segment) == [segment_id |-> segment.segment_id, deepfake_score |-> segment.deepfake_score, confidence |-> segment.deepfake_confidence, model |-> segment.deepfake_model, file_path |-> segment.file_path]

IsFlagged(segment, threshold) == segment.deepfake_score # None /\ segment.deepfake_score[1] > threshold

\* a selection of the segments whose score is below the threshold
get_deepfake_flagged_segments_Below(m, threshold) == LET flagged == SelectSeq(m.segments, LAMBDA segment : segment.deepfake_score # None /\ segment.deepfake_score[1] < threshold) IN [i \in 1..Len(flagged) |-> FlaggedEntry(flagged[i])]

\* a selection that also takes the segments whose score equals the threshold
get_deepfake_flagged_segments_AtLeast(m, threshold) == LET flagged == SelectSeq(m.segments, LAMBDA segment : segment.deepfake_score # None /\ segment.deepfake_score[1] >= threshold) IN [i \in 1..Len(flagged) |-> FlaggedEntry(flagged[i])]

\* the segments with a score strictly above the threshold, in list order
get_deepfake_flagged_segments(m, threshold) == LET flagged == SelectSeq(m.segments, LAMBDA segment : IsFlagged(segment, threshold)) IN [i \in 1..Len(flagged) |-> FlaggedEntry(flagged[i])]

\* scores a manifest may carry after updates: none, 0.1, 0.5, 0.9, 1.5
FlagScores == {None} \cup {Some(x) : x \in {1, 5, 9, 15}}

FlagThresholds == {1, 5, 9}

ScoredSegments(scores) == [k \in 1..Len(scores) |-> SegmentInfo(k - 1, k - 1, calculate_file_hash(k), IF k = 1 THEN None ELSE Some(calculate_file_hash(k - 1)), scores[k], IF scores[k] = None THEN None ELSE Some("m"), None, None)]

InitFlagged == /\ manifest \in {AssembleManifest("v1", ScoredSegments(scores)) : scores \in SeqsUpTo(FlagScores, MaxChain)}
               /\ pre = manifest
               /\ op = [name |-> "load", raised |-> FALSE]
               /\ arg = None
               /\ ret = None
               /\ output_dir = <<>>
               /\ origin = [by |-> "upload", signed |-> <<>>]
               /\ NotSigned

\* manifest.get_deepfake_flagged_segments(threshold); the call before it, if
\* it was one too, is kept beside the arguments
GetDeepfakeFlaggedSegments == \E threshold \in FlagThresholds :
                                  /\ op' = [name |-> "get_deepfake_flagged_segments", raised |-> FALSE]
                                  /\ arg' = [threshold |-> threshold, previous |-> IF op.name = "get_deepfake_flagged_segments" THEN Some([threshold |-> arg.threshold, flagged |-> ret[1]]) ELSE None]
                                  /\ ret' = Some(get_deepfake_flagged_segments(manifest, threshold))
                                  /\ UNCHANGED <<manifest, pre, output_dir, origin, signing>>

NextFlagged == GetDeepfakeFlaggedSegments

SpecFlagged == InitFlagged /\ [][NextFlagged]_vars

\* every entry of the first list is an entry of the second
EntriesWithin(flagged, others) == \A i \in 1..Len(flagged) : \E j \in 1..Len(others) : others[j] = flagged[i]

\* C20: of two calls on the same manifest with thresholds t > t', every
\* segment returned for t is also returned for t'.
C20_FlaggedMonotone == (op.name = "get_deepfake_flagged_segments" /\ arg.previous # None) => (/\ arg.previous[1].threshold > arg.threshold => EntriesWithin(arg.previous[1].flagged, ret[1])
                                                                                              /\ arg.threshold > arg.previous[1].threshold => EntriesWithin(ret[1], arg.previous[1].flagged))

\* the higher threshold flagged one segment, the lower one flags that
\* segment and another
C20_Witness == /\ op.name = "get_deepfake_flagged_segments"
               /\ arg.previous # None
               /\ arg.previous[1].threshold > arg.threshold
               /\ Len(arg.previous[1].flagged) = 1
               /\ Len(ret[1]) = 2
               /\ EntriesWithin(arg.previous[1].flagged, ret[1])

\* the positions of the segments a call with this threshold is to return
FlaggedPositions(segments, threshold) == {k \in 1..Len(segments) : segments[k].deepfake_score # None /\ segments[k].deepfake_score[1] > threshold}

\* C21: get_deepfake_flagged_segments(threshold) returns, in chain order,
\* exactly the segments whose score is not None and strictly greater than
\* the threshold: one entry for each of them, carrying its id, score,
\* confidence, model and path, and none for a segment whose score is None
\* or equal to or below the threshold.
C21_FlaggedExact == op.name = "get_deepfake_flagged_segments" =>
                        /\ Len(ret[1]) = Cardinality(FlaggedPositions(manifest.segments, arg.threshold))
                        /\ \A i, j \in 1..Len(ret[1]) : i < j => ret[1][i].segment_id < ret[1][j].segment_id
                        /\ \A k \in 1..Len(manifest.segments) : (k \in FlaggedPositions(manifest.segments, arg.threshold)) <=> (\E i \in 1..Len(ret[1]) : ret[1][i] = FlaggedEntry(manifest.segments[k]))

\* three segments with a low, a high and a low score and threshold 0.5:
\* only segment 1 is flagged
C21_Witness == /\ op.name = "get_deepfake_flagged_segments"
               /\ arg.threshold = 5
               /\ Len(manifest.segments) = 3
               /\ manifest.segments[1].deepfake_score = Some(1)
               /\ manifest.segments[2].deepfake_score = Some(9)
               /\ manifest.segments[3].deepfake_score = Some(1)
               /\ Len(ret[1]) = 1
               /\ ret[1][1].segment_id = 1

\* a segment whose score equals the threshold, and one without a score,
\* are left out
C21_WitnessEqual == /\ op.name = "get_deepfake_flagged_segments"
                    /\ \E k \in 1..Len(manifest.segments) : manifest.segments[k].deepfake_score = Some(arg.threshold)
                    /\ \E k \in 1..Len(manifest.segments) : manifest.segments[k].deepfake_score = None
                    /\ \E k \in 1..Len(manifest.segments) : k \in FlaggedPositions(manifest.segments, arg.threshold)

(***************************************************************************)
(* The manifest files: save_manifest, load_manifest and the files the      *)
(* handlers write.                                                         *)
(***************************************************************************)
\* the states in which POST /sign_segments has just returned: the run
\* returned and the handler saved manifest_<video_id>.json
InitSaved == \E video_id \in VideoIds, segment_files \in SeqsUpTo(RawContents, MaxSegs), deepfake_scores \in SuppliedScores :
                 /\ RaisesAfter(segment_files, deepfake_scores, <<"none">>) < 0
                 /\ manifest = AssembleManifest(video_id, SignedSegments(segment_files, ResolveScores(segment_files, deepfake_scores)))
                 /\ pre = NoManifest
                 /\ op = [name |-> "sign_video_segments", raised |-> FALSE]
                 /\ arg = [video_id |-> video_id, segment_files |-> segment_files, deepfake_scores |-> deepfake_scores, failure |-> <<"none">>]
                 /\ temp_dir = EmptyTempDir
                 /\ manifest_files = ManifestFilesAfter(NoManifestFiles, video_id, FALSE, manifest)
                 /\ calls = ToolCalls(segment_files, deepfake_scores, <<"none">>)
                 /\ runs = 1
                 /\ saving = None
                 /\ tasks = NoTasks
                 /\ ret = Some([k \in 1..Len(segment_files) |-> k - 1])
                 /\ output_dir = SignedFiles(segment_files)
                 /\ origin = [by |-> "process_and_sign_video", signed |-> SignedFiles(segment_files)]

\* the file the handler that has just returned saved the manifest at hand to
SavedPath == IF op.name = "sign_video_segments" THEN manifest_output_path(manifest.video_id) ELSE updated_manifest_output_path(manifest.video_id)

\* load_manifest(manifest_path) on the file the handler before it saved
LoadManifest == /\ op.name \in {"sign_video_segments", "update_scores_endpoint"}
                /\ ~op.raised
                /\ \E loaded \in {model_validate_json(manifest_files[SavedPath][1])} :
                       /\ op' = [name |-> "load_manifest", raised |-> loaded.raised]
                       /\ arg' = SavedPath
                       /\ ret' = IF loaded.raised THEN None ELSE Some(loaded.manifest)
                       /\ UNCHANGED <<manifest, pre, output_dir, origin, signing>>

NextPersist == \/ UpdateScoresEndpoint
               \/ LoadManifest

SpecPersist == InitSaved /\ [][NextPersist]_vars

\* C22: save_manifest followed by load_manifest on the written file yields
\* a manifest equal field for field to the one saved, and validate_chain()
\* gives the same result on both.
C22_SaveLoadRoundTrip == op.name = "load_manifest" => (/\ ~op.raised
                                                      /\ ret = Some(manifest)
                                                      /\ validate_chain(ret[1]) = validate_chain(manifest))

\* every str field of the manifest holds a str
WellTyped(m) == \A k \in 1..Len(m.segments) : m.segments[k].deepfake_model # Some(NotAStr)

\* read beside C22: a manifest whose fields have their declared types is
\* loaded back equal, a None previous_hash and None deepfake fields included
TypedManifestRoundTrip == (op.name = "load_manifest" /\ WellTyped(manifest)) => (/\ ~op.raised
                                                                                /\ ret = Some(manifest)
                                                                                /\ validate_chain(ret[1]) = validate_chain(manifest))

\* a saved manifest with two segments, scored by an update, is loaded back
TypedManifestRoundTrip_Witness == /\ op.name = "load_manifest"
                                  /\ WellTyped(manifest)
                                  /\ Len(manifest.segments) = 2
                                  /\ manifest.segments[1].previous_hash = None
                                  /\ manifest.segments[1].deepfake_score = Some(9)
                                  /\ manifest.segments[2].deepfake_score = None
                                  /\ arg = updated_manifest_output_path(manifest.video_id)
                                  /\ ret = Some(manifest)

\* C24: a score update leaves every manifest file written by sign-segments
\* as it was: the update that succeeds writes its manifest to
\* manifest_<video_id>_updated.json, which is not the file of any video, and
\* the one that fails writes nothing.
C24_UpdateKeepsOriginal == [][op'.name = "update_scores_endpoint" =>
                                 /\ \A v \in VideoIds : manifest_files'[manifest_output_path(v)] = manifest_files[manifest_output_path(v)]
                                 /\ op'.raised => manifest_files' = manifest_files
                                 /\ ~op'.raised => manifest_files'[updated_manifest_output_path(manifest'.video_id)] = Some(model_dump_json(manifest'))]_vars

\* after an update that scored a segment, the file saved by sign-segments
\* is there and differs from the updated file beside it
C24_Witness == /\ op.name = "update_scores_endpoint"
               /\ ~op.raised
               /\ ret = Some(1)
               /\ manifest_files[manifest_output_path(manifest.video_id)] # None
               /\ manifest_files[updated_manifest_output_path(manifest.video_id)] = Some(model_dump_json(manifest))
               /\ manifest_files[manifest_output_path(manifest.video_id)] # manifest_files[updated_manifest_output_path(manifest.video_id)]

(***************************************************************************)
(* save_manifest step by step, beside a concurrent download.  The handlers *)
(* are coroutines of one event loop: at each await of save_manifest - the  *)
(* open, the write, the close - another request may run.                   *)
(***************************************************************************)
\* the content of a file just opened with mode 'w'
EmptyText == <<"">>

\* the content of a file that holds the first part of a text only
PrefixOf(text) == <<"prefix", text>>

\* the manifests a handler may be about to save over the one at hand: the
\* manifest with one more list of scores applied
SavedManifests == {[manifest EXCEPT !.segments = ApplyScores(manifest.segments, scores_data, 0, FALSE).segments] : scores_data \in {l \in UpdateLists : ~ApplyScores(manifest.segments, l, 0, FALSE).raised}}

\* aiofiles.open(output_path, 'w'): the file is created, or cut to length 0
OpenedFiles(files, output_path) == [files EXCEPT ![output_path] = Some(EmptyText)]

\* save_manifest(manifest, output_path) up to the open, called by the
\* handler of sign-segments (the same upload signed again) or of a score
\* update
SaveOpen == \E segment_manifest \in SavedManifests, output_path \in {manifest_output_path(manifest.video_id), updated_manifest_output_path(manifest.video_id)} :
                /\ saving = None
                /\ runs < MaxRuns
                /\ runs' = runs + 1
                /\ saving' = Some([output_path |-> output_path, text |-> model_dump_json(segment_manifest)])
                /\ manifest_files' = OpenedFiles(manifest_files, output_path)
                /\ manifest' = segment_manifest
                /\ pre' = manifest
                /\ op' = [name |-> "save_manifest", raised |-> FALSE]
                /\ arg' = output_path
                /\ ret' = None
                /\ UNCHANGED <<output_dir, origin, temp_dir, calls, tasks>>

\* f.write(text): a text longer than the buffer reaches the file in parts
SaveWrite == /\ saving # None
             /\ manifest_files[saving[1].output_path] = Some(EmptyText)
             /\ manifest_files' = [manifest_files EXCEPT ![saving[1].output_path] = Some(PrefixOf(saving[1].text))]
             /\ op' = [name |-> "save_manifest", raised |-> FALSE]
             /\ arg' = saving[1].output_path
             /\ ret' = None
             /\ UNCHANGED <<manifest, pre, output_dir, origin, temp_dir, calls, runs, saving, tasks>>

\* the close at the end of the async with: the whole text is in the file
SaveClose == /\ saving # None
             /\ manifest_files' = [manifest_files EXCEPT ![saving[1].output_path] = Some(saving[1].text)]
             /\ saving' = None
             /\ op' = [name |-> "save_manifest", raised |-> FALSE]
             /\ arg' = saving[1].output_path
             /\ ret' = None
             /\ UNCHANGED <<manifest, pre, output_dir, origin, temp_dir, calls, runs, tasks>>

\* GET /download/{filename} for a manifest file: 404 when there is no such
\* file, else the content of the file as it is
DownloadSignedVideo == \E filename \in ManifestPaths :
                           /\ op' = [name |-> "download_signed_video", raised |-> manifest_files[filename] = None]
                           /\ arg' = filename
                           /\ ret' = manifest_files[filename]
                           /\ UNCHANGED <<manifest, pre, output_dir, origin, signing>>

NextSave == \/ SaveOpen
            \/ SaveWrite
            \/ SaveClose
            \/ DownloadSignedVideo

SpecSave == InitSaved /\ [][NextSave]_vars

\* C23: a download that runs beside save_manifest, at any point of it, gets
\* no file or a whole manifest text - the one the file held before the save
\* or the one being saved - never an empty or a partly written file.
C23_ReaderSeesWholeManifest == (op.name = "download_signed_video" /\ ~op.raised) => (ret[1] # EmptyText /\ ret[1] # PrefixOf(model_dump_json(manifest)))

\* read beside C23: once save_manifest has returned, the file holds the
\* whole text of the manifest saved
SavedFileIsWhole == (op.name = "save_manifest" /\ saving = None) => manifest_files[arg] = Some(model_dump_json(manifest))

SavedFileIsWhole_Witness == /\ op.name = "save_manifest"
                            /\ saving = None
                            /\ arg = manifest_output_path(manifest.video_id)
                            /\ manifest # pre

(***************************************************************************)
(* The detectors: DeepfakeIntegrationInterface and the two of              *)
(* deepfake_integration_example.py.  The scores and confidences of the     *)
(* two example detectors are in thousandths.                               *)
(***************************************************************************)
\* the files behind the paths a detector is given, by their size in bytes;
\* NoFile is a path without a file, whose stat() raises
DetectorFiles == {NoFile, 120, 1990}

\* CustomDeepfakeDetector._process_segment, or the result of the except
\* branch when it raised
CustomResult(i, file_size) == IF file_size = NoFile THEN [segment_id |-> i, score |-> 500, confidence |-> 0, model |-> "your_model_v1", metadata |-> "error"]
                              ELSE [segment_id |-> i, score |-> Min({950, file_size % 1000}), confidence |-> 850 + (file_size % 100), model |-> "your_model_v1", metadata |-> "metadata"]

\* CustomDeepfakeDetector.analyze_segments
CustomDeepfakeDetector_analyze_segments(segment_paths) == [k \in 1..Len(segment_paths) |-> CustomResult(k - 1, segment_paths[k])]

\* a batch whose results are numbered from 0
process_batch_FromZero(batch_paths, start_id) == [j \in 1..Len(batch_paths) |-> [segment_id |-> j - 1, score |-> 100 + (((j - 1) * 50) % 800), confidence |-> 900, model |-> "batch_deepfake_detector_v1", metadata |-> [batch_size |-> Len(batch_paths), segment_in_batch |-> j - 1]]]

\* BatchDeepfakeDetector._process_batch
process_batch(batch_paths, start_id) == [j \in 1..Len(batch_paths) |-> [segment_id |-> start_id + (j - 1), score |-> 100 + (((start_id + (j - 1)) * 50) % 800), confidence |-> 900, model |-> "batch_deepfake_detector_v1", metadata |-> [batch_size |-> Len(batch_paths), segment_in_batch |-> j - 1]]]

\* BatchDeepfakeDetector.analyze_segments from the batch that starts at i:
\* for i in range(0, len(segment_paths), batch_size)
RECURSIVE BatchResults(_, _, _)
BatchResults(segment_paths, batch_size, i) == IF i >= Len(segment_paths) THEN <<>> ELSE process_batch(SubSeq(segment_paths, i + 1, Min({i + batch_size, Len(segment_paths)})), i) \o BatchResults(segment_paths, batch_size, i + batch_size)

BatchDeepfakeDetector_analyze_segments(segment_paths, batch_size) == BatchResults(segment_paths, batch_size, 0)

Detectors == {"DeepfakeIntegrationInterface", "CustomDeepfakeDetector", "BatchDeepfakeDetector"}

\* batch sizes from 1 to one more than the longest list
BatchSizes == 1..(MaxChain + 1)

InitDetect == /\ manifest = NoManifest
              /\ pre = NoManifest
              /\ op = [name |-> "init", raised |-> FALSE]
              /\ arg = None
              /\ ret = None
              /\ output_dir = <<>>
              /\ origin = [by |-> "none", signed |-> <<>>]
              /\ NotSigned

\* detector.analyze_segments(segment_paths), for each of the detectors; the
\* batch size matters to the batch detector only
AnalyzeSegments == \E detector \in Detectors, segment_paths \in SeqsUpTo(DetectorFiles, MaxChain), batch_size \in BatchSizes :
                       /\ detector # "BatchDeepfakeDetector" => batch_size = 4
                       /\ op' = [name |-> "analyze_segments", raised |-> FALSE]
                       /\ arg' = [detector |-> detector, segment_paths |-> segment_paths, batch_size |-> batch_size]
                       /\ ret' = Some(CASE detector = "DeepfakeIntegrationInterface" -> analyze_segments(segment_paths)
                                        [] detector = "CustomDeepfakeDetector" -> CustomDeepfakeDetector_analyze_segments(segment_paths)
                                        [] detector = "BatchDeepfakeDetector" -> BatchDeepfakeDetector_analyze_segments(segment_paths, batch_size))
                       /\ UNCHANGED <<manifest, pre, output_dir, origin, signing>>

NextDetect == AnalyzeSegments

SpecDetect == InitDetect /\ [][NextDetect]_vars

\* C25: each detector - the default one, the custom one, the batch one for
\* every batch size from 1 up - returns one result for each path it was
\* given, in the order of the paths, result k with segment_id k.
C25_OneResultPerPath == op.name = "analyze_segments" => (/\ Len(ret[1]) = Len(arg.segment_paths)
                                                        /\ \A k \in 1..Len(ret[1]) : ret[1][k].segment_id = k - 1)

\* the batch detector on three paths in batches of two: the second batch
\* holds one path, numbered 2
C25_Witness == /\ op.name = "analyze_segments"
               /\ arg.detector = "BatchDeepfakeDetector"
               /\ arg.batch_size = 2
               /\ Len(arg.segment_paths) = 3
               /\ ret[1][3].segment_id = 2
               /\ ret[1][3].metadata.segment_in_batch = 0

\* the custom detector on paths of which the second has no file: its
\* result is the neutral one, in its place
C25_WitnessFailedSegment == /\ op.name = "analyze_segments"
                            /\ arg.detector = "CustomDeepfakeDetector"
                            /\ Len(arg.segment_paths) = 3
                            /\ arg.segment_paths[2] = NoFile
                            /\ ret[1][2].confidence = 0
                            /\ ret[1][3].segment_id = 2

(***************************************************************************)
(* validate_score_format on lists of any objects                           *)
(***************************************************************************)
\* what a score may be: 0.0, 0.5, 1.0, 1.1, -0.1, the string "0.5", True,
\* False, None
ScoreObjectValues == {PyFloat(x) : x \in {0, 5, 10, 11, -1}} \cup {PyStr("0.5"), PyBool(TRUE), PyBool(FALSE), PyNone}

\* what an entry may be: a dict with both fields, a dict that lacks one of
\* them, a string, a number
EntryObjects == {PyDict([segment_id |-> 0, score |-> score]) : score \in ScoreObjectValues} \cup {PyDict([score |-> PyFloat(5)]), PyDict([segment_id |-> 0]), PyStr("entry"), PyFloat(5)}

InitValidate == /\ manifest = NoManifest
                /\ pre = NoManifest
                /\ op = [name |-> "init", raised |-> FALSE]
                /\ arg = None
                /\ ret = None
                /\ output_dir = <<>>
                /\ origin = [by |-> "none", signed |-> <<>>]
                /\ NotSigned

\* deepfake_interface.validate_score_format(scores)
ValidateScoreFormat == \E scores \in SeqsUpTo(EntryObjects, MaxSegs) :
                           /\ op' = [name |-> "validate_score_format", raised |-> FALSE]
                           /\ arg' = scores
                           /\ ret' = Some(validate_score_format(scores))
                           /\ UNCHANGED <<manifest, pre, output_dir, origin, signing>>

NextValidate == ValidateScoreFormat

SpecValidate == InitValidate /\ [][NextValidate]_vars

\* an entry in the expected format: a mapping that contains segment_id and
\* score, the score a number (an int, a float or a bool, as Python has it)
\* between 0 and 1
ExpectedFormat(entry) == /\ entry[1] = "dict"
                         /\ {"segment_id", "score"} \subseteq DOMAIN entry[2]
                         /\ entry[2].score[1] \in {"int", "float", "bool"}
                         /\ 0 <= NumberOf(entry[2].score)
                         /\ NumberOf(entry[2].score) <= 10

\* C26: validate_score_format(list) is true exactly when every entry of the
\* list is a mapping that contains segment_id and score with the score a
\* number in [0, 1]: true for the empty list, false when one entry is not so.
C26_ValidateScoreFormatExact == op.name = "validate_score_format" => (ret[1] <=> \A j \in 1..Len(arg) : ExpectedFormat(arg[j]))

\* a list whose first entry is in the format and whose second has a score
\* above 1 is rejected
C26_Witness == /\ op.name = "validate_score_format"
               /\ Len(arg) = 2
               /\ ExpectedFormat(arg[1])
               /\ arg[2] = PyDict([segment_id |-> 0, score |-> PyFloat(11)])
               /\ ret = Some(FALSE)

\* the empty list is accepted
C26_WitnessEmpty == /\ op.name = "validate_score_format"
                    /\ arg = <<>>
                    /\ ret = Some(TRUE)

\* a list of two entries with the scores 0.0 and 1.0 is accepted
C26_WitnessBounds == /\ op.name = "validate_score_format"
                     /\ Len(arg) = 2
                     /\ ret = Some(TRUE)
                     /\ arg[1][2].score = PyFloat(0)
                     /\ arg[2][2].score = PyFloat(10)

(***************************************************************************)
(* Claims about the manifest a signing run returns, checked under Spec.    *)
(***************************************************************************)
\* C27: in the manifest a run returns, segment i has segment_id i,
\* total_segments is the length of the segment list, and the list of signed
\* paths returned with it has the same length, its entry i being the
\* file_path of segment i.
C27_IdsCountsAndPaths == (Ran /\ ~op.raised) => (/\ \A k \in 1..Len(manifest.segments) : manifest.segments[k].segment_id = k - 1
                                                /\ manifest.total_segments = Len(manifest.segments)
                                                /\ Len(ret[1]) = Len(manifest.segments)
                                                /\ \A k \in 1..Len(manifest.segments) : ret[1][k] = manifest.segments[k].file_path)

\* a run that returned a manifest of two segments
C27_Witness == /\ Ran
               /\ ~op.raised
               /\ Len(manifest.segments) = 2
               /\ manifest.segments[2].segment_id = 1
               /\ ret[1][2] = manifest.segments[2].file_path

\* C28: the segments of the manifest a run returns are the segment files
\* its own segmenter call produced, one for one: after earlier runs for the
\* same video_id, whatever their end, no file left by them is hashed,
\* signed or listed.
C28_OnlyOwnSegmentFiles == (Ran /\ ~op.raised) => (/\ Len(manifest.segments) = Len(arg.segment_files)
                                                  /\ \A k \in 1..Len(manifest.segments) : (/\ k <= Len(arg.segment_files)
                                                                                           /\ manifest.segments[k].file_hash = calculate_file_hash(arg.segment_files[k])
                                                                                           /\ output_dir[k] = c2patool_sign(arg.segment_files[k])))

\* read beside C28: the first run of the service lists its own files only
FirstRunListsOwnFiles == (Ran /\ ~op.raised /\ runs = 1) => (/\ Len(manifest.segments) = Len(arg.segment_files)
                                                             /\ \A k \in 1..Len(manifest.segments) : manifest.segments[k].file_hash = calculate_file_hash(arg.segment_files[k]))

(***************************************************************************)
(* Two runs of process_and_sign_video side by side on the one              *)
(* authenticator of the service, for different videos.  The runs are       *)
(* coroutines of one event loop; in sign_segment a run gives way at the    *)
(* open and at the write and close of its manifest_seg_<segment_id>.json,  *)
(* which aiofiles does on other threads, and goes from the call of         *)
(* c2patool to the unlink without giving way.                              *)
(***************************************************************************)
\* the content of the segment files of a video
TaskFile(video_id) == IF video_id = "v1" THEN 1 ELSE 2

\* a run at its first sign_segment, with this many segment files; a run
\* without segment files has returned
StartedTask(segments) == [pc |-> IF segments = 0 THEN "returned" ELSE "open", segment_id |-> 0, segments |-> segments, linked |-> FALSE, signed_with |-> <<>>]

InitRace == /\ manifest = NoManifest
            /\ pre = NoManifest
            /\ op = [name |-> "init", raised |-> FALSE]
            /\ arg = None
            /\ ret = None
            /\ output_dir = <<>>
            /\ origin = [by |-> "none", signed |-> <<>>]
            /\ temp_dir = EmptyTempDir
            /\ manifest_files = NoManifestFiles
            /\ calls = <<>>
            /\ runs = 0
            /\ saving = None
            /\ tasks \in [VideoIds -> {StartedTask(segments) : segments \in 0..MaxSegs}]

\* manifest_path = self.temp_dir / f"manifest_seg_{segment_id}.json": the
\* same file for every run
manifest_path(video_id, segment_id) == segment_id

\* aiofiles.open(manifest_path, 'w'): the file is created, or cut to length
\* 0 when it is there
SignSegmentOpen(v) == /\ tasks[v].pc = "open"
                      /\ temp_dir' = [temp_dir EXCEPT !.manifest_seg[manifest_path(v, tasks[v].segment_id)] = Some("")]
                      /\ tasks' = [tasks EXCEPT ![v].pc = "write", ![v].linked = TRUE]
                      /\ op' = [name |-> "sign_segment", raised |-> FALSE]
                      /\ arg' = [video_id |-> v, segment_id |-> tasks[v].segment_id]
                      /\ ret' = None
                      /\ UNCHANGED <<manifest, pre, output_dir, origin, manifest_files, calls, runs, saving>>

\* f.write(json.dumps(segment_manifest)) and the close: the text of this
\* run is in the file, unless the file was unlinked since the open
SignSegmentWrite(v) == /\ tasks[v].pc = "write"
                       /\ temp_dir' = IF tasks[v].linked THEN [temp_dir EXCEPT !.manifest_seg[manifest_path(v, tasks[v].segment_id)] = Some(v)] ELSE temp_dir
                       /\ tasks' = [tasks EXCEPT ![v].pc = "sign"]
                       /\ op' = [name |-> "sign_segment", raised |-> FALSE]
                       /\ arg' = [video_id |-> v, segment_id |-> tasks[v].segment_id]
                       /\ ret' = None
                       /\ UNCHANGED <<manifest, pre, output_dir, origin, manifest_files, calls, runs, saving>>

\* c2patool with --manifest manifest_path: it fails on a missing or an empty
\* manifest file, and the run raises; else it signs with the text it finds
\* there, the file is unlinked, and the run goes on to its next segment
SignSegmentTool(v) == LET segment_id == tasks[v].segment_id
                          text == temp_dir.manifest_seg[manifest_path(v, segment_id)]
                          failed == text = None \/ text = Some("")
                      IN /\ tasks[v].pc = "sign"
                         /\ calls' = Append(calls, "c2patool")
                         /\ op' = [name |-> "sign_segment", raised |-> failed]
                         /\ arg' = [video_id |-> v, segment_id |-> segment_id]
                         /\ ret' = IF failed THEN None ELSE Some(segment_id)
                         /\ temp_dir' = IF failed THEN temp_dir ELSE [temp_dir EXCEPT !.manifest_seg[manifest_path(v, segment_id)] = None]
                         /\ output_dir' = IF failed THEN output_dir ELSE [k \in 1..(IF segment_id + 1 > Len(output_dir) THEN segment_id + 1 ELSE Len(output_dir)) |-> IF k = segment_id + 1 THEN c2patool_sign(TaskFile(v)) ELSE output_dir[k]]
                         /\ tasks' = [w \in VideoIds |-> IF w = v THEN (IF failed THEN [tasks[v] EXCEPT !.pc = "raised"] ELSE [tasks[v] EXCEPT !.pc = IF segment_id + 1 = tasks[v].segments THEN "returned" ELSE "open", !.segment_id = segment_id + 1, !.linked = FALSE, !.signed_with = Append(@, text[1])])
                                                         ELSE IF ~failed /\ tasks[w].pc = "write" /\ manifest_path(w, tasks[w].segment_id) = manifest_path(v, segment_id) THEN [tasks[w] EXCEPT !.linked = FALSE] ELSE tasks[w]]
                         /\ UNCHANGED <<manifest, pre, origin, manifest_files, runs, saving>>

NextRace == \E v \in VideoIds : \/ SignSegmentOpen(v)
                                \/ SignSegmentWrite(v)
                                \/ SignSegmentTool(v)

SpecRace == InitRace /\ [][NextRace]_vars

\* C29: of two runs side by side for different videos, neither raises at
\* the signing of a segment, and each segment is signed with the
\* manifest_seg text its own run wrote.
C29_SignedWithOwnManifest == \A v \in VideoIds : (/\ tasks[v].pc # "raised"
                                                 /\ \A k \in 1..Len(tasks[v].signed_with) : tasks[v].signed_with[k] = v)

\* read beside C29: a run beside which no other run signs a segment signs
\* each of its segments with its own text and returns
RunAloneSignsWithOwn == (\E w \in VideoIds : tasks[w].segments = 0) => (\A v \in VideoIds : (/\ tasks[v].pc # "raised"
                                                                                           /\ \A k \in 1..Len(tasks[v].signed_with) : tasks[v].signed_with[k] = v))

RunAloneSignsWithOwn_Witness == /\ tasks["v2"].segments = 0
                                /\ tasks["v1"].pc = "returned"
                                /\ tasks["v1"].signed_with = <<"v1", "v1">>

(***************************************************************************)
(* The times of the segments in process_and_sign_video, from the number of *)
(* segment files, the segment_duration of the request and the duration     *)
(* ffprobe reports.  Times are in tenths of a second; segment_duration is  *)
(* an int of seconds.                                                      *)
(***************************************************************************)
\* start_time = i * segment_duration
\* end_time = min((i + 1) * segment_duration, video_duration)
\* actual_duration = end_time - start_time
SegmentTimes(segment_files, segment_duration, video_duration) == [k \in 1..segment_files |->
    LET i == k - 1
        start_time == i * (10 * segment_duration)
        end_time == Min({(i + 1) * (10 * segment_duration), video_duration})
    IN [segment_id |-> i, start_time |-> start_time, end_time |-> end_time, duration |-> end_time - start_time]]

InitTiming == /\ manifest = NoManifest
              /\ pre = NoManifest
              /\ op = [name |-> "init", raised |-> FALSE]
              /\ arg \in [segment_files : 0..MaxChain, segment_duration : 1..MaxSegs, video_duration : {5 * t : t \in 0..(4 * MaxChain)}]
              /\ ret = None
              /\ output_dir = <<>>
              /\ origin = [by |-> "none", signed |-> <<>>]
              /\ temp_dir = EmptyTempDir
              /\ manifest_files = NoManifestFiles
              /\ calls = <<>>
              /\ runs = 0
              /\ saving = None
              /\ tasks = NoTasks

\* the loop over enumerate(segment_files), for its times
CalculateSegmentTiming == /\ op.name = "init"
                          /\ op' = [name |-> "process_and_sign_video", raised |-> FALSE]
                          /\ ret' = Some(SegmentTimes(arg.segment_files, arg.segment_duration, arg.video_duration))
                          /\ UNCHANGED <<manifest, pre, arg, output_dir, origin, temp_dir, manifest_files, calls, runs, saving, tasks>>

NextTiming == CalculateSegmentTiming

SpecTiming == InitTiming /\ [][NextTiming]_vars

\* C30: for every segment of the returned manifest, 0 <= start_time <=
\* end_time <= total_duration, duration = end_time - start_time >= 0, and
\* the next segment starts where this one ends.
C30_SegmentTimesInOrder == op.name = "process_and_sign_video" =>
    \A k \in 1..Len(ret[1]) :
        /\ 0 <= ret[1][k].start_time
        /\ ret[1][k].start_time <= ret[1][k].end_time
        /\ ret[1][k].end_time <= arg.video_duration
        /\ ret[1][k].duration = ret[1][k].end_time - ret[1][k].start_time
        /\ ret[1][k].duration >= 0
        /\ k < Len(ret[1]) => ret[1][k + 1].start_time = ret[1][k].end_time

\* read beside C30: when the last segment file starts no later than the
\* reported duration, the times are in order, non-negative and contiguous
TimesInOrderWithinDuration == (op.name = "process_and_sign_video" /\ (arg.segment_files - 1) * (10 * arg.segment_duration) <= arg.video_duration) =>
    \A k \in 1..Len(ret[1]) :
        /\ 0 <= ret[1][k].start_time
        /\ ret[1][k].start_time <= ret[1][k].end_time
        /\ ret[1][k].end_time <= arg.video_duration
        /\ ret[1][k].duration = ret[1][k].end_time - ret[1][k].start_time
        /\ ret[1][k].duration >= 0
        /\ k < Len(ret[1]) => ret[1][k + 1].start_time = ret[1][k].end_time

TimesInOrderWithinDuration_Witness == /\ op.name = "process_and_sign_video"
                                      /\ arg = [segment_files |-> 2, segment_duration |-> 1, video_duration |-> 15]
                                      /\ ret[1][2] = [segment_id |-> 1, start_time |-> 10, end_time |-> 15, duration |-> 5]

====
